---------------------------- MODULE Spec2Model ----------------------------
(***************************************************************************)
(* Model of the mass / temperature analysis scripts                        *)
(* (src/Analysis_VN_CY.py, src/DatasetAnalysis_VN.py).                     *)
(*                                                                         *)
(* The script is a linear pipeline; pc is the position of the script.     *)
(* Tables (pandas dataframes) are sequences of records, one per row.       *)
(* Coordinates, temperatures and masses are integers; quotients that the   *)
(* code computes in floating point (true division) are kept exact as a     *)
(* numerator and a denominator.                                            *)
(***************************************************************************)
EXTENDS Integers, Sequences, FiniteSets, TLC

VARIABLES
    pc,               \* position of the script / of the function under study
    error,            \* the unhandled exception that ended the run, or "none"
    jan_code, dec_code, diff,   \* arguments of create_month_codes_dict
    month_codes,      \* the dictionary it returns
    individual_data,  \* specimen table read from the CSV (+ stackID_july)
    temp_lookup,      \* unique (longitude, decimallatitude, stackID_july) rows
    open_file,        \* get_temps_list: the gdal dataset handle
    opens,            \* number of gdal.Open calls made so far
    i,                \* get_temps_list: loop index (1-based here)
    cells,            \* get_temps_list: the [y, x] index pair used per entry
    all_temps,        \* get_temps_list: list of unpacked temperatures
    temp_data,        \* merged table, then the sentinel-filtered table
    stats_data,       \* output of remove_species
    temp_pdf, lat_pdf,          \* lin_reg: the two PdfPages report files
    closes,           \* number of close() calls made on each report file
    todo,             \* lin_reg: species groups not yet iterated
    fitted,           \* lin_reg: the rows handed to each regression fit
    stats_list        \* lin_reg: list of regression summaries

monthVars  == <<jan_code, dec_code, diff, month_codes>>
tableVars  == <<individual_data, temp_lookup, temp_data, stats_data>>
rasterVars == <<open_file, opens, i, cells, all_temps>>
regVars    == <<temp_pdf, lat_pdf, closes, todo, fitted, stats_list>>
vars == <<pc, error, monthVars, tableVars, rasterVars, regVars>>

-----------------------------------------------------------------------------
(* Small helpers                                                           *)

Min(a, b) == IF a < b THEN a ELSE b

Abs(a) == IF a < 0 THEN -a ELSE a

Range(s) == {s[k] : k \in DOMAIN s}

\* sum of a sequence of integers (halved, to keep the evaluation shallow)
RECURSIVE SumSeq(_)
SumSeq(s) ==
    IF s = <<>> THEN 0
    ELSE IF Len(s) = 1 THEN s[1]
    ELSE LET h == Len(s) \div 2
         IN  SumSeq(SubSeq(s, 1, h)) + SumSeq(SubSeq(s, h + 1, Len(s)))

EmptyDict == [m \in {} |-> 0]

-----------------------------------------------------------------------------
(* create_month_codes_dict                                                 *)

\* calendar.month_name[1..12], appended in the loop of lines 23-25
month_names ==
    << "January", "February", "March", "April", "May", "June", "July",
       "August", "September", "October", "November", "December" >>

\* A range that counts from the second term: start + step, ... (stop excluded
\* one step late)
RECURSIVE PyRangeFromSecond(_, _, _)
PyRangeFromSecond(start, stop, step) ==
    IF (step > 0 /\ start < stop) \/ (step < 0 /\ start > stop)
    THEN <<start + step>> \o PyRangeFromSecond(start + step, stop, step)
    ELSE <<>>

\* Python's range(start, stop, step), step # 0: stop is excluded
RECURSIVE PyRange(_, _, _)
PyRange(start, stop, step) ==
    IF (step > 0 /\ start < stop) \/ (step < 0 /\ start > stop)
    THEN <<start>> \o PyRange(start + step, stop, step)
    ELSE <<>>

\* zip(month_names, codes) followed by the dictionary assignments
ZipDict(names, codes) ==
    LET n == Min(Len(names), Len(codes))
    IN  [m \in {names[k] : k \in 1..n} |->
            codes[CHOOSE k \in 1..n : names[k] = m]]

create_month_codes_dict(jan, dec, d) ==
    ZipDict(month_names, PyRange(jan, dec, d))

\* The call of the script (line 142) and the bounded calls explored besides
ScriptJan == 22799
ScriptDec == 22787
ScriptDiff == -1

MaxSpan == 26
MaxDiff == 2

MonthArgs ==
    {<<ScriptJan, ScriptDec, ScriptDiff>>}
    \cup {<<j, j + s, d>> : j \in {0, 5}, s \in (-MaxSpan)..MaxSpan,
                            d \in (-MaxDiff)..MaxDiff}

\* range() raises ValueError for a zero step; nothing catches it
CreateMonthCodes ==
    /\ pc = "month_codes"
    /\ IF diff = 0
       THEN /\ pc' = "aborted"
            /\ error' = "ValueError"
            /\ UNCHANGED month_codes
       ELSE /\ month_codes' = create_month_codes_dict(jan_code, dec_code, diff)
            /\ pc' = "stackID"
            /\ UNCHANGED error
    /\ UNCHANGED <<jan_code, dec_code, diff, tableVars, rasterVars, regVars>>

-----------------------------------------------------------------------------
(* get_stackID                                                             *)

get_stackID(year, month_code) == year * 12 - month_code

-----------------------------------------------------------------------------
(* The raster file air.mon.mean.v301.nc as gdal presents it: a stack of    *)
(* bands numbered from 1, each a YSize x XSize array of packed integers,   *)
(* one affine geotransform, and a linear decoding (offset, scale).         *)
(* The contents are data, not code: a small raster whose cells all differ, *)
(* with the missing-data value in the last cell of every band.             *)

temp_file ==
    [ GeoTransform |-> <<-4, 2, 0, 4, 0, -2>>,   \* originX, pixelWidth, 0, originY, 0, pixelHeight
      RasterXSize  |-> 3,
      RasterYSize  |-> 3,
      RasterCount  |-> 20,
      Offset       |-> 1,
      Scale        |-> 2,
      Missing      |-> 1638 ]                    \* unpacks to 3277

GetGeoTransform(file) == file.GeoTransform

\* single_band.ReadAsArray(): rows 0..YSize-1, columns 0..XSize-1
ReadAsArray(file, band) ==
    [r \in 0..(file.RasterYSize - 1) |->
        [c \in 0..(file.RasterXSize - 1) |->
            IF r = file.RasterYSize - 1 /\ c = file.RasterXSize - 1
            THEN file.Missing
            ELSE band + file.RasterXSize * r + c]]

\* open_file.GetRasterBand(n) returns no band unless 1 <= n <= RasterCount
HasRasterBand(file, band) == band \in 1..file.RasterCount

\* Integer quotient rounded toward minus infinity, for any signs (den # 0)
FloorDiv(num, den) ==
    IF den > 0 THEN num \div den ELSE (-num) \div (-den)

IsWhole(num, den) == FloorDiv(num, den) * den = num

\* A conversion that rounds toward minus infinity instead
PyIntFloor(num, den) == FloorDiv(num, den)

\* int(num / den) under true division: the fraction is dropped, so the
\* result is rounded toward zero
PyInt(num, den) ==
    IF IsWhole(num, den) \/ (num >= 0) = (den > 0)
    THEN FloorDiv(num, den)
    ELSE FloorDiv(num, den) + 1

\* lines 62-63: the [y, x] index pair computed for one coordinate pair
CellIndex(file, lon, lat) ==
    LET gt == GetGeoTransform(file)
    IN  [ x |-> PyInt(lon - gt[1], gt[2]),
          y |-> PyInt(lat - gt[4], gt[6]) ]

\* numpy indexing of one axis: -size..size-1 are valid, and a negative
\* index counts from the end
InAxis(idx, size) == idx >= -size /\ idx < size
AxisPos(idx, size) == IF idx < 0 THEN idx + size ELSE idx

\* band_array[y, x] (line 65); the caller has checked InAxis for both
ArrayItem(file, band, y, x) ==
    ReadAsArray(file, band)[AxisPos(y, file.RasterYSize)][AxisPos(x, file.RasterXSize)]

\* A decoding that forgets the offset
UnpackNoOffset(file, packed_temp) == packed_temp * file.Scale

\* line 68
Unpack(file, packed_temp) == file.Offset + (packed_temp * file.Scale)

-----------------------------------------------------------------------------
(* get_temps_list(temp_lookup[[longitude, decimallatitude]],               *)
(*                temp_lookup[stackID_july])                               *)

\* line 57-58
GtOpen ==
    /\ pc = "get_temps"
    /\ open_file' = "open"
    /\ opens' = opens + 1
    /\ all_temps' = <<>>
    /\ cells' = <<>>
    /\ i' = 1
    /\ pc' = "gt_loop"
    /\ UNCHANGED <<error, monthVars, tableVars, regVars>>

\* lines 59-69, one iteration that reads a cell
GtSample ==
    /\ pc = "gt_loop"
    /\ i <= Len(temp_lookup)
    /\ LET row  == temp_lookup[i]
           band == row.stackID_july
           cell == CellIndex(temp_file, row.longitude, row.decimallatitude)
       IN  /\ HasRasterBand(temp_file, band)
           /\ InAxis(cell.y, temp_file.RasterYSize)
           /\ InAxis(cell.x, temp_file.RasterXSize)
           /\ all_temps' = Append(all_temps,
                  Unpack(temp_file, ArrayItem(temp_file, band, cell.y, cell.x)))
           /\ cells' = Append(cells, cell)
    /\ i' = i + 1
    /\ UNCHANGED <<pc, error, open_file, opens, monthVars, tableVars, regVars>>

\* line 60 yields no band, and line 64 fails on it (AttributeError)
GtBandError ==
    /\ pc = "gt_loop"
    /\ i <= Len(temp_lookup)
    /\ ~HasRasterBand(temp_file, temp_lookup[i].stackID_july)
    /\ pc' = "aborted"
    /\ error' = "AttributeError"
    /\ UNCHANGED <<open_file, opens, i, cells, all_temps, monthVars, tableVars, regVars>>

\* line 65 raises IndexError; line 70 is not reached
GtIndexError ==
    /\ pc = "gt_loop"
    /\ i <= Len(temp_lookup)
    /\ LET row  == temp_lookup[i]
           cell == CellIndex(temp_file, row.longitude, row.decimallatitude)
       IN  /\ HasRasterBand(temp_file, row.stackID_july)
           /\ ~(InAxis(cell.y, temp_file.RasterYSize) /\ InAxis(cell.x, temp_file.RasterXSize))
    /\ pc' = "aborted"
    /\ error' = "IndexError"
    /\ UNCHANGED <<open_file, opens, i, cells, all_temps, monthVars, tableVars, regVars>>

\* add the column july_temps to the lookup rows (line 152)
WithTemps(lookup, temps) ==
    [k \in 1..Len(lookup) |->
        [ longitude       |-> lookup[k].longitude,
          decimallatitude |-> lookup[k].decimallatitude,
          stackID_july    |-> lookup[k].stackID_july,
          july_temps      |-> temps[k] ]]

\* lines 70-71, and the assignment of the result at line 152
GtReturn ==
    /\ pc = "gt_loop"
    /\ i > Len(temp_lookup)
    /\ open_file' = "released"
    /\ temp_lookup' = WithTemps(temp_lookup, all_temps)
    /\ pc' = "merge"
    /\ UNCHANGED <<error, opens, i, cells, all_temps, monthVars,
                   individual_data, temp_data, stats_data, regVars>>

-----------------------------------------------------------------------------
(* The script, lines 131-159: tables                                       *)

\* line 145: the column stackID_july added to every specimen row
WithStackID(data, july_code) ==
    [k \in 1..Len(data) |->
        [ row_index           |-> data[k].row_index,
          clean_genus_species |-> data[k].clean_genus_species,
          class               |-> data[k].class,
          year                |-> data[k].year,
          longitude           |-> data[k].longitude,
          decimallatitude     |-> data[k].decimallatitude,
          mass                |-> data[k].mass,
          stackID_july        |-> get_stackID(data[k].year, july_code) ]]

\* line 148: the three key columns of every row, in row order
KeyColumns(data) ==
    [k \in 1..Len(data) |->
        [ longitude       |-> data[k].longitude,
          decimallatitude |-> data[k].decimallatitude,
          stackID_july    |-> data[k].stackID_july ]]

\* A lookup table that keeps repeated keys
KeepDuplicates(rows) == rows

\* line 149, DataFrame.drop_duplicates(): a row is kept unless an equal row
\* precedes it, and the kept rows stay in order
drop_duplicates(rows) ==
    LET kept   == {k \in 1..Len(rows) : \A j \in 1..(k - 1) : rows[j] # rows[k]}
        nth(m) == CHOOSE k \in kept : Cardinality({j \in kept : j <= k}) = m
    IN  [m \in 1..Cardinality(kept) |-> rows[nth(m)]]

SameKey(a, b) ==
    /\ a.longitude = b.longitude
    /\ a.decimallatitude = b.decimallatitude
    /\ a.stackID_july = b.stackID_july

Joined(row, look) ==
    [ row_index           |-> row.row_index,
      clean_genus_species |-> row.clean_genus_species,
      class               |-> row.class,
      year                |-> row.year,
      longitude           |-> row.longitude,
      decimallatitude     |-> row.decimallatitude,
      mass                |-> row.mass,
      stackID_july        |-> row.stackID_july,
      july_temps          |-> look.july_temps ]

\* line 153, DataFrame.merge(): inner join on the columns the two tables
\* share (the key); a left row yields one output row per matching right
\* row, and the output follows the order of the left rows
RECURSIVE merge(_, _)
merge(left, right) ==
    IF left = <<>> THEN <<>>
    ELSE IF Len(left) = 1
    THEN LET matches == SelectSeq(right, LAMBDA r : SameKey(left[1], r))
         IN  [k \in 1..Len(matches) |-> Joined(left[1], matches[k])]
    ELSE LET h == Len(left) \div 2
         IN  merge(SubSeq(left, 1, h), right) \o merge(SubSeq(left, h + 1, Len(left)), right)

\* line 156
SentinelLimit == 3276

\* A filter that lets every temperature through
KeepAllTemps(data) == data

BelowSentinel(data) ==
    SelectSeq(data, LAMBDA r : r.july_temps < SentinelLimit)

\* lines 145: month_codes["July"] raises KeyError when July has no code
StackID ==
    /\ pc = "stackID"
    /\ IF "July" \in DOMAIN month_codes
       THEN /\ individual_data' = WithStackID(individual_data, month_codes["July"])
            /\ pc' = "lookup"
            /\ UNCHANGED error
       ELSE /\ pc' = "aborted"
            /\ error' = "KeyError"
            /\ UNCHANGED individual_data
    /\ UNCHANGED <<monthVars, temp_lookup, temp_data, stats_data, rasterVars, regVars>>

\* lines 148-149
Lookup ==
    /\ pc = "lookup"
    /\ temp_lookup' = drop_duplicates(KeyColumns(individual_data))
    /\ pc' = "get_temps"
    /\ UNCHANGED <<error, monthVars, individual_data, temp_data, stats_data,
                   rasterVars, regVars>>

\* line 153
Merge ==
    /\ pc = "merge"
    /\ temp_data' = merge(individual_data, temp_lookup)
    /\ pc' = "sentinel"
    /\ UNCHANGED <<error, monthVars, individual_data, temp_lookup, stats_data,
                   rasterVars, regVars>>

\* line 156
Sentinel ==
    /\ pc = "sentinel"
    /\ temp_data' = BelowSentinel(temp_data)
    /\ pc' = "remove_species"
    /\ UNCHANGED <<error, monthVars, individual_data, temp_lookup, stats_data,
                   rasterVars, regVars>>

-----------------------------------------------------------------------------
(* remove_species(dataframe, "clean_genus_species")                        *)

MinIndividuals == 30

SpeciesOf(data) == {data[k].clean_genus_species : k \in 1..Len(data)}

RowsOf(data, species) ==
    SelectSeq(data, LAMBDA r : r.clean_genus_species = species)

\* len(species_data["row_index"].unique())
Individuals(data, species) ==
    Cardinality({r.row_index : r \in Range(RowsOf(data, species))})

\* A threshold test that also drops a species of exactly MinIndividuals
InsufficientAtMost(dataframe) ==
    {sp \in SpeciesOf(dataframe) : Individuals(dataframe, sp) <= MinIndividuals}

\* lines 85-88
Insufficient(dataframe) ==
    {sp \in SpeciesOf(dataframe) : Individuals(dataframe, sp) < MinIndividuals}

\* lines 85-90
remove_species(dataframe) ==
    LET insufficient_species == Insufficient(dataframe)
    IN  SelectSeq(dataframe,
                  LAMBDA r : (r.clean_genus_species \in insufficient_species) = FALSE)

\* line 159
RemoveSpecies ==
    /\ pc = "remove_species"
    /\ stats_data' = remove_species(temp_data)
    /\ pc' = "lin_reg"
    /\ UNCHANGED <<error, monthVars, individual_data, temp_lookup, temp_data,
                   rasterVars, regVars>>

-----------------------------------------------------------------------------
(* lin_reg(stats_data, "clean_genus_species")                              *)

\* The order in which groupby yields the species labels (sorted labels)
SpeciesOrder == <<"sp_a", "sp_b">>

\* dataset.groupby(speciesID_col): the labels present, in sorted order
GroupKeys(data) == SelectSeq(SpeciesOrder, LAMBDA sp : sp \in SpeciesOf(data))

Column(rows, f(_)) == [k \in 1..Len(rows) |-> f(rows[k])]

\* smf.ols("y ~ x").fit() for one predictor and an intercept, exactly:
\* with n rows, cxy = n*Sum(xy) - Sum(x)Sum(y), cxx and cyy alike; then
\* slope = cxy / cxx and rsquared = cxy^2 / (cxx * cyy).  The quotients
\* are left unevaluated; cxx = 0 (one distinct predictor value) leaves the
\* slope without a value, and the fit returns all the same.
ols(xs, ys) ==
    LET n   == Len(xs)
        sx  == SumSeq(xs)
        sy  == SumSeq(ys)
        sxx == SumSeq([k \in 1..n |-> xs[k] * xs[k]])
        syy == SumSeq([k \in 1..n |-> ys[k] * ys[k]])
        sxy == SumSeq([k \in 1..n |-> xs[k] * ys[k]])
    IN  [ cxy |-> n * sxy - sx * sy,
          cxx |-> n * sxx - sx * sx,
          cyy |-> n * syy - sy * sy ]

\* lines 97-124 for one species group
Summary(species, species_data) ==
    LET masses      == Column(species_data, LAMBDA r : r.mass)
        temp_linreg == ols(Column(species_data, LAMBDA r : r.july_temps), masses)
        lat_linreg  == ols(Column(species_data, LAMBDA r : Abs(r.decimallatitude)), masses)
        lat_sum     == SumSeq(Column(species_data, LAMBDA r : r.decimallatitude))
    IN  [ genus_species  |-> species,
          class          |-> species_data[1].class,
          individuals    |-> Cardinality({r.row_index : r \in Range(species_data)}),
          hemisphere     |-> IF lat_sum < 0 THEN "south" ELSE "north",
          temp_r_squared |-> <<temp_linreg.cxy, temp_linreg.cxx, temp_linreg.cyy>>,
          temp_slope     |-> <<temp_linreg.cxy, temp_linreg.cxx>>,
          lat_r_squared  |-> <<lat_linreg.cxy, lat_linreg.cxx, lat_linreg.cyy>>,
          lat_slope      |-> <<lat_linreg.cxy, lat_linreg.cxx>> ]

\* lines 93-96
LrOpen ==
    /\ pc = "lin_reg"
    /\ temp_pdf' = "open"
    /\ lat_pdf' = "open"
    /\ stats_list' = <<>>
    /\ fitted' = <<>>
    /\ todo' = GroupKeys(stats_data)
    /\ pc' = "lr_loop"
    /\ UNCHANGED <<error, monthVars, tableVars, rasterVars, closes>>

\* lines 96-124, one iteration: nothing tests the group before the fits and
\* nothing catches around them; the summary is appended unconditionally
LrFit ==
    /\ pc = "lr_loop"
    /\ todo # <<>>
    /\ LET species      == Head(todo)
           species_data == RowsOf(stats_data, species)
       IN  /\ stats_list' = Append(stats_list, Summary(species, species_data))
           /\ fitted' = Append(fitted, [species |-> species, rows |-> species_data])
    /\ todo' = Tail(todo)
    /\ UNCHANGED <<pc, error, monthVars, tableVars, rasterVars, temp_pdf, lat_pdf, closes>>

\* lines 125-128
LrClose ==
    /\ pc = "lr_loop"
    /\ todo = <<>>
    /\ temp_pdf' = "closed"
    /\ lat_pdf' = "closed"
    /\ closes' = [temp_pdf |-> closes.temp_pdf + 1, lat_pdf |-> closes.lat_pdf + 1]
    /\ pc' = "write_csv"
    /\ UNCHANGED <<error, monthVars, tableVars, rasterVars, todo, fitted, stats_list>>

\* lines 163-164
WriteCsv ==
    /\ pc = "write_csv"
    /\ pc' = "done"
    /\ UNCHANGED <<error, monthVars, tableVars, rasterVars, regVars>>

-----------------------------------------------------------------------------
(* Inputs                                                                  *)

\* Collection sites <<longitude, decimallatitude, year>> against temp_file,
\* whose extent is -4 <= longitude < 2, -2 < decimallatitude <= 4 and whose
\* July bands are 7 (1900) and 19 (1901)
SiteNorth    == <<-3, 3, 1900>>   \* column 0, row 0
SiteEast     == <<1, 1, 1901>>    \* column 2, row 1
SiteSouth    == <<-3, -1, 1900>>  \* column 0, row 2
SiteMissing  == <<1, -1, 1900>>   \* column 2, row 2: the missing-data cell
SiteBeyond   == <<3, 3, 1900>>    \* right of the last column
SiteLeft     == <<-7, 3, 1900>>   \* left of the origin
SiteEarly    == <<-3, 3, 1899>>   \* before the first band
Sites == {SiteNorth, SiteEast, SiteSouth, SiteMissing, SiteBeyond, SiteLeft, SiteEarly}

\* n specimens of one species, then dups repeated rows of the first ones;
\* the first k specimens were collected at s1, the others at s2
GenRows(species, class, base, n, dups, k, s1, s2) ==
    [j \in 1..(n + dups) |->
        LET m    == IF j <= n THEN j ELSE j - n
            site == IF m <= k THEN s1 ELSE s2
        IN  [ row_index           |-> base + m,
              clean_genus_species |-> species,
              class               |-> class,
              year                |-> site[3],
              longitude           |-> site[1],
              decimallatitude     |-> site[2],
              mass                |-> 1 + (m % 3) ]]

MaxExtra == 1
MaxFirst == 2
MaxDups == 1

Counts == {0, 2} \cup ((MinIndividuals - 1)..(MinIndividuals + MaxExtra))

\* CSV contents: sp_a in full variety, sp_b absent or at a single site
Datasets ==
    {GenRows("sp_a", "Aves", 0, n, d, k, s1, s2) \o b :
        n \in Counts, d \in {0, MaxDups}, k \in 1..MaxFirst, s1 \in Sites, s2 \in Sites,
        b \in {<<>>} \cup {GenRows("sp_b", "Mammalia", 100, MinIndividuals, 0, 0, s, s) :
                              s \in {SiteNorth, SiteMissing}}}

\* Inputs of get_temps_list alone: up to MaxCoords lookup rows; longitudes
\* and latitudes run across and past every edge of the raster, bands across
\* and past both ends of the stack
MaxCoords == 2

LookupKeys ==
    {[longitude |-> x, decimallatitude |-> 3, stackID_july |-> 7] : x \in -12..3}
    \cup {[longitude |-> -3, decimallatitude |-> y, stackID_july |-> 7] : y \in -3..12}
    \cup {[longitude |-> 1, decimallatitude |-> 1, stackID_july |-> b] : b \in {0, 1, 19, 20, 21}}

RECURSIVE SeqsUpTo(_, _)
SeqsUpTo(S, n) ==
    IF n = 0 THEN {<<>>}
    ELSE LET shorter == SeqsUpTo(S, n - 1)
         IN  shorter \cup {Append(q, e) : q \in shorter, e \in S}

\* Inputs of remove_species alone: merged rows of two species whose
\* row_index values overlap, every count of individuals up to past the
\* threshold, with and without repeated rows
TempRows(data) ==
    LET rows == WithStackID(data, create_month_codes_dict(ScriptJan, ScriptDec, ScriptDiff)["July"])
    IN  [k \in 1..Len(rows) |-> Joined(rows[k], [july_temps |-> 15])]

FilterInputs ==
    {TempRows(GenRows("sp_a", "Aves", 0, na, da, 0, SiteNorth, SiteNorth)
              \o GenRows("sp_b", "Mammalia", 0, nb, db, 0, SiteNorth, SiteNorth)) :
        na \in 0..(MinIndividuals + MaxExtra), nb \in 0..(MinIndividuals + MaxExtra),
        da \in 0..MaxDups, db \in 0..MaxDups}

-----------------------------------------------------------------------------
(* Specifications                                                          *)

Fresh ==
    /\ error = "none"
    /\ month_codes = EmptyDict
    /\ open_file = "none"
    /\ opens = 0
    /\ i = 0
    /\ cells = <<>>
    /\ all_temps = <<>>
    /\ stats_data = <<>>
    /\ temp_pdf = "unopened"
    /\ lat_pdf = "unopened"
    /\ closes = [temp_pdf |-> 0, lat_pdf |-> 0]
    /\ todo = <<>>
    /\ fitted = <<>>
    /\ stats_list = <<>>

\* The whole script on a CSV file
Init ==
    /\ Fresh
    /\ pc = "month_codes"
    /\ jan_code = ScriptJan
    /\ dec_code = ScriptDec
    /\ diff = ScriptDiff
    /\ individual_data \in Datasets
    /\ temp_lookup = <<>>
    /\ temp_data = <<>>

Next ==
    \/ CreateMonthCodes
    \/ StackID
    \/ Lookup
    \/ GtOpen
    \/ GtSample
    \/ GtBandError
    \/ GtIndexError
    \/ GtReturn
    \/ Merge
    \/ Sentinel
    \/ RemoveSpecies
    \/ LrOpen
    \/ LrFit
    \/ LrClose
    \/ WriteCsv

Spec == Init /\ [][Next]_vars

\* create_month_codes_dict on bounded arguments
InitMonth ==
    /\ Fresh
    /\ pc = "month_codes"
    /\ \E a \in MonthArgs : jan_code = a[1] /\ dec_code = a[2] /\ diff = a[3]
    /\ individual_data = <<>>
    /\ temp_lookup = <<>>
    /\ temp_data = <<>>

NextMonth == CreateMonthCodes

SpecMonth == InitMonth /\ [][NextMonth]_vars

\* get_temps_list on bounded arguments
InitSampler ==
    /\ Fresh
    /\ pc = "get_temps"
    /\ jan_code = ScriptJan
    /\ dec_code = ScriptDec
    /\ diff = ScriptDiff
    /\ individual_data = <<>>
    /\ temp_lookup \in SeqsUpTo(LookupKeys, MaxCoords)
    /\ temp_data = <<>>

NextSampler ==
    \/ GtOpen
    \/ GtSample
    \/ GtBandError
    \/ GtIndexError
    \/ GtReturn

SpecSampler == InitSampler /\ [][NextSampler]_vars

\* remove_species on bounded tables
InitFilter ==
    /\ Fresh
    /\ pc = "remove_species"
    /\ jan_code = ScriptJan
    /\ dec_code = ScriptDec
    /\ diff = ScriptDiff
    /\ individual_data = <<>>
    /\ temp_lookup = <<>>
    /\ temp_data \in FilterInputs

NextFilter == RemoveSpecies

SpecFilter == InitFilter /\ [][NextFilter]_vars

-----------------------------------------------------------------------------
(* Properties                                                              *)

\* Distinct row_index values among the rows of one species, counted
\* directly on the table
DistinctIndividuals(data, sp) ==
    Cardinality({data[k].row_index :
                    k \in {j \in 1..Len(data) : data[j].clean_genus_species = sp}})

SpeciesRows(data, sp) ==
    SelectSeq(data, LAMBDA r : r.clean_genus_species = sp)

C2_NoSentinelInFit ==
    /\ \A k \in 1..Len(fitted) :
          \A r \in Range(fitted[k].rows) : r.july_temps < 3276
    /\ \A r \in Range(stats_data) : r.july_temps < 3276

\* A species was fitted although one of its specimens sampled the
\* missing-data value
C2_Witness ==
    /\ Len(fitted) >= 1
    /\ \E k \in 1..Len(fitted) :
          \E r \in Range(individual_data) :
             /\ r.clean_genus_species = fitted[k].species
             /\ \E t \in Range(temp_lookup) : SameKey(r, t) /\ t.july_temps >= 3276

\* C3: after de-duplication no two lookup rows share a key, and the merge
\* yields exactly one row per specimen record, in order, carrying the
\* temperature of the lookup row with the record's key.
C3_OneTemperaturePerKey ==
    /\ pc \notin {"month_codes", "stackID", "lookup"} =>
          \A a, b \in 1..Len(temp_lookup) :
             SameKey(temp_lookup[a], temp_lookup[b]) => a = b
    /\ pc = "sentinel" =>
          /\ Len(temp_data) = Len(individual_data)
          /\ \A k \in 1..Len(temp_data) :
                /\ temp_data[k].row_index = individual_data[k].row_index
                /\ temp_data[k].clean_genus_species = individual_data[k].clean_genus_species
                /\ temp_data[k].mass = individual_data[k].mass
                /\ SameKey(temp_data[k], individual_data[k])
                /\ \E t \in Range(temp_lookup) :
                      SameKey(t, temp_data[k]) /\ t.july_temps = temp_data[k].july_temps
          /\ \A j, k \in 1..Len(temp_data) :
                SameKey(temp_data[j], temp_data[k])
                    => temp_data[j].july_temps = temp_data[k].july_temps

\* Records sharing keys were merged against a lookup table of several keys
C3_Witness ==
    /\ pc = "sentinel"
    /\ Len(temp_lookup) >= 2
    /\ Len(individual_data) > Len(temp_lookup)
    /\ Len(temp_data) = Len(individual_data)

\* The arguments describe exactly twelve codes: the twelfth lies before
\* dec and the thirteenth does not
Valid12(jan, dec, d) ==
    \/ d > 0 /\ jan + 11 * d < dec /\ dec <= jan + 12 * d
    \/ d < 0 /\ jan + 11 * d > dec /\ dec >= jan + 12 * d

CalendarMonths ==
    << "January", "February", "March", "April", "May", "June", "July",
       "August", "September", "October", "November", "December" >>

\* C4: for arguments describing a 12-step sequence the dictionary has the
\* twelve month names as keys and the k-th month maps to
\* jan_code + (k-1)*diff; (22799, 22787, -1) gives January 22799,
\* February 22798 and December 22788.
C4_TwelveMonthsInOrder ==
    (pc = "stackID" /\ Valid12(jan_code, dec_code, diff)) =>
        /\ DOMAIN month_codes = Range(CalendarMonths)
        /\ Cardinality(DOMAIN month_codes) = 12
        /\ \A k \in 1..12 :
              month_codes[CalendarMonths[k]] = jan_code + (k - 1) * diff
        /\ (jan_code = 22799 /\ dec_code = 22787 /\ diff = -1) =>
              /\ month_codes["January"] = 22799
              /\ month_codes["February"] = 22798
              /\ month_codes["December"] = 22788

\* The call of the script has returned, and so has a call with an
\* ascending step of 2
C4_Witness ==
    /\ pc = "stackID"
    /\ \/ jan_code = 22799 /\ dec_code = 22787 /\ diff = -1
          /\ month_codes["December"] = 22788
       \/ diff = 2 /\ Valid12(jan_code, dec_code, diff)
          /\ month_codes["December"] = jan_code + 22

\* C9: the dictionary maps "January" to jan_code and "December" to
\* dec_code (stated for the calls that give every month a code).
C9_DecemberIsDecCode ==
    (pc = "stackID" /\ Valid12(jan_code, dec_code, diff)) =>
        /\ month_codes["January"] = jan_code
        /\ month_codes["December"] = dec_code

\* The raster cell of lookup row k when its indices are taken as numpy
\* takes them, and the value packed there
CellRead(k) ==
    LET size_y == temp_file.RasterYSize
        size_x == temp_file.RasterXSize
    IN  [ row |-> IF cells[k].y < 0 THEN cells[k].y + size_y ELSE cells[k].y,
          col |-> IF cells[k].x < 0 THEN cells[k].x + size_x ELSE cells[k].x ]

PackedAt(k) ==
    ReadAsArray(temp_file, temp_lookup[k].stackID_july)[CellRead(k).row][CellRead(k).col]

\* C5: a call that returns gives a list as long as its input whose k-th
\* element is offset + packed * scale for the cell read for the k-th
\* coordinate pair in the k-th band; the list is a function of the raster
\* and the inputs alone, so an equal call returns an equal list.
C5_OneTemperaturePerInput ==
    pc = "merge" =>
        /\ Len(all_temps) = Len(temp_lookup)
        /\ Len(cells) = Len(temp_lookup)
        /\ \A k \in 1..Len(temp_lookup) :
              /\ all_temps[k] = temp_file.Offset + PackedAt(k) * temp_file.Scale
              /\ temp_lookup[k].july_temps = all_temps[k]
              /\ cells[k] = CellIndex(temp_file, temp_lookup[k].longitude,
                                      temp_lookup[k].decimallatitude)

\* A call with two entries has returned two different temperatures
C5_Witness ==
    /\ pc = "merge"
    /\ Len(all_temps) = 2
    /\ all_temps[1] # all_temps[2]
    /\ temp_lookup[1].stackID_july # temp_lookup[2].stackID_july

\* The extent of the raster: the quotients (lon - originX) / pixelWidth and
\* (lat - originY) / pixelHeight lie in [0, XSize) and [0, YSize)
WithinAxis(num, den, size) ==
    IF den > 0 THEN 0 <= num /\ num < size * den
               ELSE 0 >= num /\ num > size * den

InExtent(key) ==
    LET gt == temp_file.GeoTransform
    IN  /\ WithinAxis(key.longitude - gt[1], gt[2], temp_file.RasterXSize)
        /\ WithinAxis(key.decimallatitude - gt[4], gt[6], temp_file.RasterYSize)

\* C6: no temperature is produced for a coordinate outside the raster
\* extent: every entry for which a value was appended lies inside it (the
\* lookup of any other entry ends the run with an error).
C6_OutsideExtentFails ==
    \A k \in 1..Len(all_temps) : InExtent(temp_lookup[k])

\* q is num / den rounded toward minus infinity
IsFloorOf(q, num, den) ==
    IF den > 0 THEN q * den <= num /\ num < (q + 1) * den
               ELSE q * den >= num /\ num > (q + 1) * den

\* q is num / den rounded toward zero
IsTruncationOf(q, num, den) ==
    /\ Abs(q) * Abs(den) <= Abs(num)
    /\ Abs(num) < (Abs(q) + 1) * Abs(den)
    /\ q > 0 => (num > 0) = (den > 0)
    /\ q < 0 => (num > 0) # (den > 0)

NonNegative(num, den) == num = 0 \/ (num > 0) = (den > 0)

C8_RasterReleasedOnEveryPath ==
    (pc = "merge" \/ (pc = "aborted" /\ error = "IndexError"))
        => (opens = 1 /\ open_file = "released")

\* C8, second half: once lin_reg has ended, each report file was closed
\* exactly once, and no file is closed while species remain.
LinRegFilesClosedOnce ==
    /\ pc \in {"write_csv", "done"} =>
          /\ temp_pdf = "closed" /\ lat_pdf = "closed"
          /\ closes = [temp_pdf |-> 1, lat_pdf |-> 1]
    /\ pc = "lr_loop" => closes = [temp_pdf |-> 0, lat_pdf |-> 0]

DistinctValues(rows, f(_)) == Cardinality({f(r) : r \in Range(rows)})

\* C7: no regression summary is emitted for a species group with fewer than
\* 2 distinct temperatures or fewer than 2 distinct absolute latitudes (the
\* group is skipped, or the run fails).
C7_DegenerateGroupNotSummarised ==
    \A k \in 1..Len(stats_list) :
        /\ DistinctValues(fitted[k].rows, LAMBDA r : r.july_temps) >= 2
        /\ DistinctValues(fitted[k].rows, LAMBDA r : Abs(r.decimallatitude)) >= 2

=============================================================================
